---- MODULE Spec2Model ----
(***************************************************************************)
(* pdfcombine (src/pdfcombine/cli.py): the command line is a list of       *)
(* tokens; main() extracts the output file, groups the remaining tokens    *)
(* into Operations, and appends each operation's pages to a PdfWriter that *)
(* is written once at the end.                                             *)
(*                                                                         *)
(* A Python str is modelled as the sequence of its characters, so that     *)
(* startswith, split and int are computed rather than assumed.             *)
(***************************************************************************)
EXTENDS Integers, Sequences, FiniteSets, TLC

VARIABLES
    argv,        \* sys.argv[1:], fixed for the run
    existing,    \* the paths that exist on disk (os.path.exists / isfile)
    pc,          \* position of main()
    args,        \* args_to_process
    outfile,     \* outfile
    operations,  \* operations
    operation,   \* the Operation being built by the grouping loop
    cmd,         \* cmd of the flag loop
    value,       \* value of the flag loop
    opi,         \* position of `for op in operations` (1-based, 0 before the loop)
    pages_left,  \* elements of pages_to_keep the page loop has not yielded yet
    i,           \* i of the page loop
    writer,      \* writer.pages, one record per appended page
    written,     \* writer.write(fp) happened on outfile
    outcome,     \* how the run ended ("running" until then)
    reported,    \* the token the printed message names
    call,        \* a direct call of parse_page_range / Operation.pages_to_keep
    ret          \* what that call returned or raised

mainVars == <<argv, existing, pc, args, outfile, operations, operation, cmd,
              value, opi, pages_left, i, writer, written, outcome, reported>>
callVars == <<call, ret>>
vars == <<argv, existing, pc, args, outfile, operations, operation, cmd,
          value, opi, pages_left, i, writer, written, outcome, reported,
          call, ret>>

(***************************************************************************)
(* Bounds of the model.                                                    *)
(***************************************************************************)
MaxArgs == 3       \* longest command line tried
MaxLen == 5        \* longest range string tried in direct calls
MaxN == 3          \* largest page count tried in direct calls
NumPagesA == 2     \* pages of the input file "a"
NumPagesB == 1     \* pages of the input file "b"

(***************************************************************************)
(* Python values.                                                          *)
(***************************************************************************)
None == <<"None">>

Digits == {"0", "1", "2", "3", "4", "5", "6", "7", "8", "9"}

DigitVal(c) ==
    CASE c = "0" -> 0 [] c = "1" -> 1 [] c = "2" -> 2 [] c = "3" -> 3
      [] c = "4" -> 4 [] c = "5" -> 5 [] c = "6" -> 6 [] c = "7" -> 7
      [] c = "8" -> 8 [] c = "9" -> 9

AllDigits(s) == Len(s) > 0 /\ \A k \in 1..Len(s) : s[k] \in Digits

\* int(s) succeeds: an optional sign and at least one digit (the alphabet of
\* the model has no whitespace, "+" or "_")
IsInt(s) ==
    \/ AllDigits(s)
    \/ Len(s) > 1 /\ s[1] = "-" /\ AllDigits(Tail(s))

RECURSIVE NatVal(_)
NatVal(s) ==
    IF s = <<>> THEN 0
    ELSE 10 * NatVal(SubSeq(s, 1, Len(s) - 1)) + DigitVal(s[Len(s)])

\* int(s), for IsInt(s)
IntVal(s) == IF s[1] = "-" THEN 0 - NatVal(Tail(s)) ELSE NatVal(s)

\* s.startswith("-")
startswith_dash(s) == Len(s) > 0 /\ s[1] = "-"

\* s.split(sep): the pieces between the separators, empty pieces kept
RECURSIVE split(_, _)
split(s, sep) ==
    IF \A k \in 1..Len(s) : s[k] # sep THEN <<s>>
    ELSE LET p == CHOOSE k \in 1..Len(s) :
                      s[k] = sep /\ \A j \in 1..(k - 1) : s[j] # sep
         IN  <<SubSeq(s, 1, p - 1)>> \o split(SubSeq(s, p + 1, Len(s)), sep)

(***************************************************************************)
(* parse_page_range                                                        *)
(***************************************************************************)
\* range(low, high + 1)
range_mut(low, high) == low..(high - 1)
range(low, high) == low..high

\* one iteration of `for r in ranges`: the pages r adds, or the ValueError
\* it raises and the text its message names
parse_one(r, s) ==
    LET limits == split(r, "-") IN
    IF Len(limits) = 1 THEN
        IF IsInt(limits[1])
        THEN [raised |-> "none", pages |-> {IntVal(limits[1])}, named |-> None]
        ELSE [raised |-> "ValueError: invalid literal", pages |-> {},
              named |-> limits[1]]
    ELSE IF Len(limits) = 2 THEN
        IF ~IsInt(limits[1])
        THEN [raised |-> "ValueError: invalid literal", pages |-> {},
              named |-> limits[1]]
        ELSE IF ~IsInt(limits[2])
        THEN [raised |-> "ValueError: invalid literal", pages |-> {},
              named |-> limits[2]]
        ELSE IF IntVal(limits[2]) < IntVal(limits[1])
        THEN [raised |-> "ValueError: invalid range", pages |-> {}, named |-> r]
        ELSE [raised |-> "none",
              pages |-> range(IntVal(limits[1]), IntVal(limits[2])),
              named |-> None]
    ELSE [raised |-> "ValueError: failed to parse page range", pages |-> {},
          named |-> s]

\* the loop over ranges from position k on, pages being the set so far
RECURSIVE parse_loop(_, _, _, _)
parse_loop(ranges, k, pages, s) ==
    IF k > Len(ranges) THEN [raised |-> "none", pages |-> pages, named |-> None]
    ELSE LET one == parse_one(ranges[k], s) IN
         IF one.raised # "none" THEN one
         ELSE parse_loop(ranges, k + 1, pages \cup one.pages, s)

parse_page_range(s, zero_index) ==
    LET got == parse_loop(split(s, ","), 1, {}, s) IN
    IF got.raised # "none" THEN got
    ELSE IF zero_index
    THEN [got EXCEPT !.pages = {p - 1 : p \in got.pages}]
    ELSE got

(***************************************************************************)
(* Operation                                                               *)
(***************************************************************************)
Operation(filename) ==
    [filename |-> filename, page_range |-> None, keep |-> TRUE, angle |-> 0]

pages_to_keep_mut(op, N) ==
    LET all_pages == 0..(N - 1) IN
    IF op.page_range = None
    THEN [raised |-> "none", pages |-> all_pages, named |-> None]
    ELSE parse_page_range(op.page_range, TRUE)

pages_to_keep(op, N) ==
    LET all_pages == 0..(N - 1) IN
    IF op.page_range = None
    THEN [raised |-> "none", pages |-> all_pages, named |-> None]
    ELSE LET got == parse_page_range(op.page_range, TRUE) IN
         IF got.raised # "none" THEN got
         ELSE IF op.keep THEN got
         ELSE [got EXCEPT !.pages = all_pages \ got.pages]

(***************************************************************************)
(* The command line.                                                       *)
(***************************************************************************)
FileA == <<"a">>
FileB == <<"b">>
FlagK == <<"-", "k">>
FlagKeep == <<"-", "-", "k", "e", "e", "p">>
FlagR == <<"-", "r">>
FlagRemove == <<"-", "-", "r", "e", "m", "o", "v", "e">>
FlagA == <<"-", "a">>
FlagAngle == <<"-", "-", "a", "n", "g", "l", "e">>
FlagO == <<"-", "o">>
FlagOutput == <<"-", "-", "o", "u", "t", "p", "u", "t">>
FlagH == <<"-", "h">>
FlagHelp == <<"-", "-", "h", "e", "l", "p">>
FlagX == <<"-", "x">>
CombinedPdf == <<"c", "o", "m", "b", "i", "n", "e", "d", ".", "p", "d", "f">>

\* the tokens command lines are built from: two input files, every flag of
\* the program and one it does not know, and values that serve as ranges,
\* angles and output paths
Tokens ==
    {FileA, FileB, FlagK, FlagKeep, FlagR, FlagRemove, FlagA, FlagAngle,
     FlagO, FlagOutput, FlagH, FlagHelp, FlagX,
     <<"2", ",", "1">>, <<"2", "-", "1">>, <<"0">>, <<"9", "0">>}

CommandLines == UNION {[1..n -> Tokens] : n \in 0..MaxArgs}

\* what is on disk before the run: the two inputs, or those and files at the
\* default output path and at a path named like a flag
Disks == {{FileA, FileB}, {FileA, FileB, CombinedPdf, FlagO}}

\* len(PdfReader(filename).pages)
PageCount(filename) ==
    IF filename = FileA THEN NumPagesA
    ELSE IF filename = FileB THEN NumPagesB
    ELSE 1

\* args.index(x), -1 standing for the ValueError main() turns into -1
index(a, x) ==
    IF \A k \in 1..Len(a) : a[k] # x THEN -1
    ELSE (CHOOSE k \in 1..Len(a) : a[k] = x /\ \A j \in 1..(k - 1) : a[j] # x) - 1

\* args.pop(k) for a valid 0-based k: the list without that element
pop(a, k) == SubSeq(a, 1, k) \o SubSeq(a, k + 2, Len(a))

max(x, y) == IF x >= y THEN x ELSE y

parse_output_file_mut(a) ==
    LET idx_o == index(a, FlagO)
        idx_output == index(a, FlagOutput)
        idx == max(idx_o, idx_output)
    IN  IF idx_o > 0 /\ idx_output > 0
        THEN [raised |-> "ValueError", outfile |-> None, args |-> a]
        ELSE IF idx = -1
        THEN [raised |-> "none", outfile |-> CombinedPdf, args |-> a]
        ELSE IF idx + 1 >= Len(a)
        THEN [raised |-> "IndexError", outfile |-> None, args |-> a]
        ELSE [raised |-> "none", outfile |-> a[idx + 2], args |-> pop(a, idx)]

\* the outfile and what is left of args, or the exception raised
parse_output_file(a) ==
    LET idx_o == index(a, FlagO)
        idx_output == index(a, FlagOutput)
        idx == max(idx_o, idx_output)
    IN  IF idx_o > 0 /\ idx_output > 0
        THEN [raised |-> "ValueError", outfile |-> None, args |-> a]
        ELSE IF idx = -1
        THEN [raised |-> "none", outfile |-> CombinedPdf, args |-> a]
        ELSE IF idx + 1 >= Len(a)
        THEN [raised |-> "IndexError", outfile |-> None, args |-> a]
        ELSE [raised |-> "none", outfile |-> a[idx + 2],
              args |-> pop(pop(a, idx + 1), idx)]

popleft_mut(q) ==
    IF q = <<>> THEN [raised |-> "none", item |-> None, rest |-> q]
    ELSE [raised |-> "none", item |-> Head(q), rest |-> Tail(q)]

\* deque.popleft()
popleft(q) ==
    IF q = <<>> THEN [raised |-> "IndexError", item |-> None, rest |-> q]
    ELSE [raised |-> "none", item |-> Head(q), rest |-> Tail(q)]

append_mut(ops, op) == <<op>> \o ops

\* operations.append(operation)
append(ops, op) == Append(ops, op)

\* reader.pages[k] of a document of N pages: the page the index names (a
\* negative index counts from the end), or IndexError
page_at(N, k) ==
    IF k >= 0 /\ k < N THEN [raised |-> "none", page |-> k]
    ELSE IF k < 0 /\ N + k >= 0 THEN [raised |-> "none", page |-> N + k]
    ELSE [raised |-> "IndexError", page |-> -1]

(***************************************************************************)
(* main()                                                                  *)
(***************************************************************************)
KnownFlags == {FlagK, FlagKeep, FlagR, FlagRemove, FlagA, FlagAngle}

InitMain ==
    /\ argv \in CommandLines
    /\ existing \in Disks
    /\ pc = "start"
    /\ args = argv
    /\ outfile = None
    /\ operations = <<>>
    /\ operation = None
    /\ cmd = None
    /\ value = None
    /\ opi = 0
    /\ pages_left = {}
    /\ i = None
    /\ writer = <<>>
    /\ written = FALSE
    /\ outcome = "running"
    /\ reported = None

\* a return of main() after a printed message
Return(how, token) ==
    /\ pc' = "done"
    /\ outcome' = how
    /\ reported' = token

\* an exception nothing catches: the interpreter prints the traceback
Crash(how) ==
    /\ pc' = "crashed"
    /\ outcome' = how
    /\ reported' = None

wants_usage(a) ==
    \/ Len(a) = 0
    \/ \E k \in 1..Len(a) : a[k] = FlagH
    \/ \E k \in 1..Len(a) : a[k] = FlagHelp

PrintUsage ==
    /\ pc = "start"
    /\ wants_usage(args)
    /\ Return("usage", None)
    /\ UNCHANGED <<argv, existing, args, outfile, operations, operation, cmd,
                   value, opi, pages_left, i, writer, written>>

ParseOutputFile ==
    /\ pc = "start"
    /\ ~wants_usage(args)
    /\ LET got == parse_output_file(args) IN
       IF got.raised = "ValueError"
       THEN /\ Return("ConflictingFlags", None)
            /\ UNCHANGED <<args, outfile>>
       ELSE IF got.raised = "IndexError"
       THEN /\ Crash("IndexError: pop index out of range")
            /\ UNCHANGED <<args, outfile>>
       ELSE /\ args' = got.args
            /\ outfile' = got.outfile
            /\ IF got.outfile \in existing
               THEN Return("OutputExists", got.outfile)
               ELSE /\ pc' = "group"
                    /\ UNCHANGED <<outcome, reported>>
    /\ UNCHANGED <<argv, existing, operations, operation, cmd, value, opi,
                   pages_left, i, writer, written>>

\* the head of the outer while loop: the next token is a file name
PopFile ==
    /\ pc = "group"
    /\ Len(args) > 0
    /\ LET last_file == popleft(args).item IN
       /\ args' = popleft(args).rest
       /\ IF last_file \notin existing
          THEN /\ Return("FileNotFound", last_file)
               /\ UNCHANGED operation
          ELSE /\ operation' = Operation(last_file)
               /\ pc' = "flags"
               /\ UNCHANGED <<outcome, reported>>
    /\ UNCHANGED <<argv, existing, outfile, operations, cmd, value, opi,
                   pages_left, i, writer, written>>

\* one pass of the inner while loop: a flag and its value
PopFlag ==
    /\ pc = "flags"
    /\ Len(args) > 0 /\ startswith_dash(args[1])
    /\ LET c == popleft(args)
           v == popleft(c.rest)
       IN  /\ cmd' = c.item
           /\ IF v.raised # "none"
              THEN /\ Crash("IndexError: pop from an empty deque")
                   /\ args' = c.rest
                   /\ UNCHANGED <<value, operation>>
              ELSE /\ value' = v.item
                   /\ args' = v.rest
                   /\ IF c.item = FlagK \/ c.item = FlagKeep
                      THEN /\ operation' = [operation EXCEPT !.keep = TRUE,
                                                !.page_range = v.item]
                           /\ UNCHANGED <<pc, outcome, reported>>
                      ELSE IF c.item = FlagR \/ c.item = FlagRemove
                      THEN /\ operation' = [operation EXCEPT !.keep = FALSE,
                                                !.page_range = v.item]
                           /\ UNCHANGED <<pc, outcome, reported>>
                      ELSE IF c.item = FlagA \/ c.item = FlagAngle
                      THEN IF v.item # None /\ IsInt(v.item)
                           THEN /\ operation' = [operation EXCEPT
                                                     !.angle = IntVal(v.item)]
                                /\ UNCHANGED <<pc, outcome, reported>>
                           ELSE /\ Crash("ValueError: invalid literal")
                                /\ UNCHANGED operation
                      \* highlight(current): no name `current` is bound
                      ELSE /\ Crash("NameError: name 'current' is not defined")
                           /\ UNCHANGED operation
    /\ UNCHANGED <<argv, existing, outfile, operations, opi, pages_left, i,
                   writer, written>>

\* the inner loop ends: the operation joins the list
AppendOperation ==
    /\ pc = "flags"
    /\ ~(Len(args) > 0 /\ startswith_dash(args[1]))
    /\ operations' = append(operations, operation)
    /\ pc' = "group"
    /\ UNCHANGED <<argv, existing, args, outfile, operation, cmd, value, opi,
                   pages_left, i, writer, written, outcome, reported>>

\* the outer loop ends: on to combining
StartCombine ==
    /\ pc = "group"
    /\ Len(args) = 0
    /\ pc' = "combine"
    /\ opi' = 1
    /\ UNCHANGED <<argv, existing, args, outfile, operations, operation, cmd,
                   value, pages_left, i, writer, written, outcome, reported>>

\* the head of `for op in operations`: open the file, compute its pages
OpenOperation ==
    /\ pc = "combine"
    /\ opi <= Len(operations)
    /\ LET op == operations[opi]
           got == pages_to_keep(op, PageCount(op.filename))
       IN  IF got.raised # "none"
           THEN /\ Return("RangeError", got.named)
                /\ UNCHANGED pages_left
           ELSE /\ pages_left' = got.pages
                /\ pc' = "pages"
                /\ UNCHANGED <<outcome, reported>>
    /\ UNCHANGED <<argv, existing, args, outfile, operations, operation, cmd,
                   value, opi, i, writer, written>>

\* one pass of `for i in pages_to_keep`. pages_to_keep is a set and the loop
\* does not sort it: Python fixes no iteration order for a set, so the next
\* element is any one not yet yielded. (CPython orders by hash slot: the set
\* {8, 1} that --keep 9,2 gives is yielded as 8, 1.)
AddPage ==
    /\ pc = "pages"
    /\ \E k \in pages_left :
        LET op == operations[opi]
            got == page_at(PageCount(op.filename), k)
        IN  /\ i' = k
            /\ pages_left' = pages_left \ {k}
            /\ IF got.raised # "none"
               THEN /\ Crash("IndexError: sequence index out of range")
                    /\ UNCHANGED writer
               ELSE /\ writer' = Append(writer,
                                    [op |-> opi, filename |-> op.filename,
                                     index |-> k, page |-> got.page,
                                     rotation |-> op.angle])
                    /\ UNCHANGED <<pc, outcome, reported>>
    /\ UNCHANGED <<argv, existing, args, outfile, operations, operation, cmd,
                   value, opi, written>>

\* the page loop ends: next operation
NextOperation ==
    /\ pc = "pages"
    /\ pages_left = {}
    /\ opi' = opi + 1
    /\ pc' = "combine"
    /\ UNCHANGED <<argv, existing, args, outfile, operations, operation, cmd,
                   value, pages_left, i, writer, written, outcome, reported>>

loop_over_mut == opi > 1

\* `for op in operations` has run out of operations
loop_over == opi > Len(operations)

\* after the loop: writer.write(fp) on outfile
WriteOutput ==
    /\ pc = "combine"
    /\ loop_over
    /\ written' = TRUE
    /\ existing' = existing \cup {outfile}
    /\ Return("saved", outfile)
    /\ UNCHANGED <<argv, args, outfile, operations, operation, cmd, value,
                   opi, pages_left, i, writer>>

CallIdle == call = None /\ ret = None

Init == InitMain /\ CallIdle

Next ==
    \/ PrintUsage /\ UNCHANGED callVars
    \/ ParseOutputFile /\ UNCHANGED callVars
    \/ PopFile /\ UNCHANGED callVars
    \/ PopFlag /\ UNCHANGED callVars
    \/ AppendOperation /\ UNCHANGED callVars
    \/ StartCombine /\ UNCHANGED callVars
    \/ OpenOperation /\ UNCHANGED callVars
    \/ AddPage /\ UNCHANGED callVars
    \/ NextOperation /\ UNCHANGED callVars
    \/ WriteOutput /\ UNCHANGED callVars

Spec == Init /\ [][Next]_vars
(***************************************************************************)
(* Direct calls of the two pure functions, on every range string of the    *)
(* alphabet up to MaxLen characters.                                       *)
(***************************************************************************)
RangeAlphabet == {"0", "1", "2", ",", "-"}

RangeStrings == UNION {[1..n -> RangeAlphabet] : n \in 0..MaxLen}

MainIdle ==
    /\ argv = <<>>
    /\ existing = {}
    /\ pc = "idle"
    /\ args = <<>>
    /\ outfile = None
    /\ operations = <<>>
    /\ operation = None
    /\ cmd = None
    /\ value = None
    /\ opi = 0
    /\ pages_left = {}
    /\ i = None
    /\ writer = <<>>
    /\ written = FALSE
    /\ outcome = "running"
    /\ reported = None

InitRange ==
    /\ MainIdle
    /\ \E s \in RangeStrings :
        call = [fn |-> "none", s |-> s, zero_index |-> TRUE,
                op |-> Operation(FileA), N |-> 0]
    /\ ret = None

\* parse_page_range(s, zero_index)
CallParsePageRange ==
    /\ call.fn = "none"
    /\ \E zero_index \in BOOLEAN :
        /\ call' = [call EXCEPT !.fn = "parse_page_range",
                                !.zero_index = zero_index]
        /\ ret' = parse_page_range(call.s, zero_index)
    /\ UNCHANGED mainVars

\* Operation(filename, page_range, keep).pages_to_keep(N)
CallPagesToKeep ==
    /\ call.fn = "none"
    /\ \E keep \in BOOLEAN, N \in 0..MaxN, page_range \in {call.s, None} :
        LET op == [Operation(FileA) EXCEPT !.page_range = page_range,
                                           !.keep = keep]
        IN  /\ call' = [call EXCEPT !.fn = "pages_to_keep", !.op = op, !.N = N]
            /\ ret' = pages_to_keep(op, N)
    /\ UNCHANGED mainVars

NextRange == CallParsePageRange \/ CallPagesToKeep

SpecRange == InitRange /\ [][NextRange]_vars

(***************************************************************************)
(* What a range string denotes, read off the string by positions: a token  *)
(* is a maximal comma-free stretch a..b (empty when a = b + 1).            *)
(***************************************************************************)
DigitOf ==
    ("0" :> 0) @@ ("1" :> 1) @@ ("2" :> 2) @@ ("3" :> 3) @@ ("4" :> 4) @@
    ("5" :> 5) @@ ("6" :> 6) @@ ("7" :> 7) @@ ("8" :> 8) @@ ("9" :> 9)

TokenSpans(s) ==
    {ab \in (1..(Len(s) + 1)) \X (0..Len(s)) :
        /\ ab[1] <= ab[2] + 1
        /\ ab[1] = 1 \/ s[ab[1] - 1] = ","
        /\ ab[2] = Len(s) \/ s[ab[2] + 1] = ","
        /\ \A k \in ab[1]..ab[2] : s[k] # ","}

IsNumeral(s, a, b) == a <= b /\ \A k \in a..b : s[k] \in Digits

Decimal(s, a, b) ==
    LET f[k \in (a - 1)..b] ==
            IF k = a - 1 THEN 0 ELSE 10 * f[k - 1] + DigitOf[s[k]]
    IN  f[b]

Dashes(s, a, b) == {k \in a..b : s[k] = "-"}

IsPair(s, a, b) ==
    /\ Cardinality(Dashes(s, a, b)) = 1
    /\ \E d \in Dashes(s, a, b) : IsNumeral(s, a, d - 1) /\ IsNumeral(s, d + 1, b)

Low(s, a, b) == Decimal(s, a, (CHOOSE d \in Dashes(s, a, b) : TRUE) - 1)
High(s, a, b) == Decimal(s, (CHOOSE d \in Dashes(s, a, b) : TRUE) + 1, b)

\* every token is N, or LOW-HIGH with LOW <= HIGH
ValidRangeSpec(s) ==
    \A ab \in TokenSpans(s) :
        \/ IsNumeral(s, ab[1], ab[2])
        \/ IsPair(s, ab[1], ab[2]) /\ Low(s, ab[1], ab[2]) <= High(s, ab[1], ab[2])

\* some token is a pair with HIGH < LOW, or has more than one dash
HasBadToken(s) ==
    \E ab \in TokenSpans(s) :
        \/ Cardinality(Dashes(s, ab[1], ab[2])) > 1
        \/ IsPair(s, ab[1], ab[2]) /\ High(s, ab[1], ab[2]) < Low(s, ab[1], ab[2])

\* the one-indexed pages a valid range string names
NamedPages(s) ==
    UNION {IF IsNumeral(s, ab[1], ab[2])
           THEN {Decimal(s, ab[1], ab[2])}
           ELSE Low(s, ab[1], ab[2])..High(s, ab[1], ab[2]) : ab \in TokenSpans(s)}

\* C5: parse_page_range returns, for a string of tokens N or LOW-HIGH with
\* LOW <= HIGH, exactly the union of the {N} and the [LOW, HIGH], each
\* element one less when zero_index is true; a pair with HIGH < LOW or a token
\* with more than one dash makes it raise instead.
C5_ParsePageRange ==
    call.fn = "parse_page_range" =>
        /\ ValidRangeSpec(call.s) =>
              /\ ret.raised = "none"
              /\ ret.pages = {n - (IF call.zero_index THEN 1 ELSE 0) :
                                 n \in NamedPages(call.s)}
        /\ HasBadToken(call.s) => ret.raised # "none"

C5_Witness ==
    /\ call.fn = "parse_page_range"
    /\ call.s = <<"1", "-", "2", ",", "0">>
    /\ call.zero_index
    /\ ret.raised = "none"
    /\ ret.pages = {-1, 0, 1}

\* C6: in remove mode, with a range string naming the pages S (zero-indexed),
\* pages_to_keep(N) is {0..N-1} minus S for every N >= 0: what S holds outside
\* 0..N-1 changes nothing, and the result lies within 0..N-1.
C6_RemoveIsComplement ==
    (/\ call.fn = "pages_to_keep"
     /\ ~call.op.keep
     /\ call.op.page_range # None
     /\ ValidRangeSpec(call.s)) =>
        /\ ret.raised = "none"
        /\ ret.pages = {p \in 0..(call.N - 1) : p + 1 \notin NamedPages(call.s)}
        /\ ret.pages \subseteq 0..(call.N - 1)

C6_Witness ==
    /\ call.fn = "pages_to_keep"
    /\ ~call.op.keep
    /\ call.op.page_range = <<"0", "-", "2">>
    /\ call.N = 3
    /\ ret.raised = "none"
    /\ ret.pages = {2}

(***************************************************************************)
(* What a token stream denotes, read off the stream by positions.          *)
(***************************************************************************)
Has(a, x) == \E k \in 1..Len(a) : a[k] = x

First(a, x) == CHOOSE k \in 1..Len(a) : a[k] = x /\ \A j \in 1..(k - 1) : a[j] # x

\* extraction has run on argv
Extracted == pc \notin {"start", "idle"} /\ outcome # "usage"

\* the role grouping gives each token of a stream: the first is a file; after
\* a flag comes its value; elsewhere a token is a flag when it starts with "-"
Role(st) ==
    LET r[k \in 1..Len(st)] ==
            IF k = 1 THEN "file"
            ELSE IF r[k - 1] = "flag" THEN "value"
            ELSE IF st[k][1] = "-" THEN "flag"
            ELSE "file"
    IN  r

FilePositions(st) == {k \in 1..Len(st) : Role(st)[k] = "file"}

\* the position of the j-th file token
NthFile(st, j) ==
    CHOOSE k \in FilePositions(st) :
        Cardinality({m \in FilePositions(st) : m < k}) = j - 1

\* the positions of writer.pages that operation j contributed
Contributed(j) == {x \in 1..Len(writer) : writer[x].op = j}

\* C1: in a run that succeeds there is one operation per file token, in the
\* order of the file tokens, and the output is the concatenation in that order
\* of each operation's selected pages: the pages of an earlier file token all
\* precede those of a later one.
C1_FileOrder ==
    outcome = "saved" =>
        LET st == parse_output_file(argv).args IN
        /\ Len(operations) = Cardinality(FilePositions(st))
        /\ \A j \in 1..Len(operations) :
              /\ operations[j].filename = st[NthFile(st, j)]
              /\ LET sel == pages_to_keep(operations[j],
                                          PageCount(operations[j].filename)).pages
                 IN  /\ {writer[x].index : x \in Contributed(j)} = sel
                     /\ Cardinality(Contributed(j)) = Cardinality(sel)
              /\ \A x \in Contributed(j) :
                    writer[x].filename = operations[j].filename
        /\ \A x, y \in 1..Len(writer) : x < y => writer[x].op <= writer[y].op
        /\ \A x \in 1..Len(writer) : writer[x].op \in 1..Len(operations)

C1_Witness ==
    /\ outcome = "saved"
    /\ Len(operations) = 2
    /\ operations[1].filename = FileA /\ operations[2].filename = FileB
    /\ Len(writer) = NumPagesA + NumPagesB
    /\ writer[1].filename = FileA
    /\ writer[Len(writer)].filename = FileB

\* C2: the pages one operation contributes are appended in strictly ascending
\* page-number order.
C2_AscendingWithinOperation ==
    \A x \in 1..(Len(writer) - 1) :
        writer[x].op = writer[x + 1].op => writer[x].index < writer[x + 1].index

\* C3: the output path is written only after the last operation has been
\* processed, and a run that ends any other way than by saving (a printed
\* failure, an exception) has written nothing.
C3_WriteOnlyAfterAll ==
    /\ written =>
          /\ pc = "done" /\ outcome = "saved"
          /\ args = <<>> /\ pages_left = {}
          /\ opi = Len(operations) + 1
          /\ \A j \in 1..Len(operations) : Contributed(j) # {} \/
                pages_to_keep(operations[j],
                              PageCount(operations[j].filename)).pages = {}
          /\ outfile \in existing
    /\ outcome \notin {"running", "saved"} => ~written
    /\ pc # "done" => ~written
    /\ ~written => existing \in Disks

C3_Witness ==
    /\ pc = "crashed"
    /\ outcome = "IndexError: sequence index out of range"
    /\ Len(writer) > 0
    /\ ~written
    /\ outfile \notin existing

\* C4: a stream holding both -o and --output, wherever they stand, makes
\* extraction fail with the conflicting-flags error, and nothing is written.
C4_ConflictingFlags ==
    (Extracted /\ Has(argv, FlagO) /\ Has(argv, FlagOutput)) =>
        outcome = "ConflictingFlags" /\ ~written

\* C7: a token starting with "-" after a file token that is none of the six
\* known flags ends the run at once with the unknown-flag error naming that
\* token; no operation is added and nothing is written.
C7_UnknownFlagReported ==
    [][(pc = "flags" /\ Len(args) > 0 /\ startswith_dash(args[1])
            /\ args[1] \notin KnownFlags) =>
        (/\ pc' = "done"
         /\ outcome' = "UnknownFlag"
         /\ reported' = args[1]
         /\ operations' = operations
         /\ ~written')]_vars

\* C8: no page is appended for an index outside 0..N-1 of its document, and a
\* run that selected such an index writes nothing.
C8_OutOfBoundsAborts ==
    /\ \A x \in 1..Len(writer) :
          writer[x].index \in 0..(PageCount(writer[x].filename) - 1)
    /\ written =>
          \A j \in 1..Len(operations) :
              pages_to_keep(operations[j], PageCount(operations[j].filename)).pages
                  \subseteq 0..(PageCount(operations[j].filename) - 1)

C10_DanglingFlagFails ==
    [][/\ (pc = "flags" /\ Len(args) = 1 /\ args[1] \in KnownFlags) =>
            (/\ pc' = "crashed"
             /\ outcome' \notin {"running", "saved", "usage"}
             /\ operations' = operations
             /\ opi' = 0 /\ writer' = <<>>
             /\ ~written')
       /\ pc = "crashed" => pc' = "crashed" /\ ~written']_vars

C10_Witness ==
    /\ pc = "crashed"
    /\ outcome = "IndexError: pop from an empty deque"
    /\ cmd \in KnownFlags
    /\ args = <<>>
    /\ operations = <<>>
    /\ ~written
====
